---- MODULE Spec2Model ----
(***************************************************************************)
(* Model of list_compute_resources (src/app.py), the handler bound to the  *)
(* "List Compute Resources" button.  One invocation runs from the call to  *)
(* its return; the external workspace client (WorkspaceClient,             *)
(* clusters.list, warehouses.list) is the environment and answers each     *)
(* call either with a value or by raising.                                 *)
(*                                                                         *)
(* Python values are encoded as follows:                                   *)
(*   - an attribute that may be None is an option: <<>> is None and <<v>>  *)
(*     is the value v;                                                     *)
(*   - a dict is the sequence of its <<key, value>> items in insertion     *)
(*     order (Python dicts keep insertion order), keys unique;             *)
(*   - a list is a sequence;                                               *)
(*   - the JSON document written by json.dumps is the object it encodes,   *)
(*     a function whose DOMAIN is the set of the object's keys.            *)
(***************************************************************************)
EXTENDS Integers, Sequences, FiniteSets, TLC

\* ------------------------------------------------------------------ bounds
MaxClusters == 2
MaxWarehouses == 2

\* ------------------------------------------------------------ Python values
None == <<>>
Some(v) == <<v>>

\* `x or default` on an optional str attribute: None and "" are falsy.
OrDefault(x, default) == IF x = None \/ x = Some("") THEN default ELSE x[1]

\* `arg or os.getenv(name, "")` on a str argument.
OrEnv(arg, env) == IF arg = "" THEN env ELSE arg

\* `x.state.value if x.state else "Unknown"`.
StateOf(x) == IF x.state = None THEN "Unknown" ELSE x.state[1]

\* ----------------------------------------------------------- str ordering
\* The code points of the state strings the model draws from; Python orders
\* str values lexicographically by code point.
CodePoints(s) ==
    CASE s = "RUNNING"    -> <<82, 85, 78, 78, 73, 78, 71>>
      [] s = "TERMINATED" -> <<84, 69, 82, 77, 73, 78, 65, 84, 69, 68>>
      [] s = "Unknown"    -> <<85, 110, 107, 110, 111, 119, 110>>

RECURSIVE SeqLess(_, _)
SeqLess(a, b) ==
    IF b = <<>> THEN FALSE
    ELSE IF a = <<>> THEN TRUE
    ELSE IF a[1] # b[1] THEN a[1] < b[1]
    ELSE SeqLess(Tail(a), Tail(b))

StrLess(a, b) == SeqLess(CodePoints(a), CodePoints(b))

\* ------------------------------------------------------------------ dicts
DictKeys(d) == {d[k][1] : k \in 1..Len(d)}

\* d.get(key, default)
DictGet(d, key, default) ==
    IF key \in DictKeys(d)
    THEN d[CHOOSE k \in 1..Len(d) : d[k][1] = key][2]
    ELSE default

\* d[key] = value: an existing key keeps its position, a new key goes last.
DictSet(d, key, value) ==
    IF key \in DictKeys(d)
    THEN [k \in 1..Len(d) |-> IF d[k][1] = key THEN <<key, value>> ELSE d[k]]
    ELSE Append(d, <<key, value>>)

\* states[state] = states.get(state, 0) + 1
Tally_overwrite(states, state) == DictSet(states, state, 1)

Tally(states, state) == DictSet(states, state, DictGet(states, state, 0) + 1)

\* Tuple order on (key, count) items, as sorted() compares them.
ItemLess(a, b) == StrLess(a[1], b[1]) \/ (a[1] = b[1] /\ a[2] < b[2])

RECURSIVE InsertSorted(_, _)
InsertSorted(item, s) ==
    IF s = <<>> THEN <<item>>
    ELSE IF ItemLess(item, s[1]) THEN <<item>> \o s
    ELSE <<s[1]>> \o InsertSorted(item, Tail(s))

RECURSIVE SortedFrom(_, _)
SortedFrom(items, acc) ==
    IF items = <<>> THEN acc
    ELSE SortedFrom(Tail(items), InsertSorted(items[1], acc))

Sorted_unsorted(items) == items

\* sorted(states.items())
Sorted(items) == SortedFrom(items, <<>>)

\* ------------------------------------------------------ the environment
HostUrl == "https://x.example.com"
Token == "tok"

\* What the workspace API can hand back for one cluster / one warehouse.
ClusterObjects ==
    [cluster_name  : {Some("c1")},
     cluster_id    : {None},
     state         : {None, Some("RUNNING"), Some("TERMINATED")},
     spark_version : {None}]

WarehouseObjects ==
    [name           : {Some("w1")},
     id             : {Some("wh1")},
     state          : {None, Some("RUNNING")},
     cluster_size   : {Some("Small")},
     warehouse_type : {None},
     auto_stop_mins : {None, Some(10), Some(30)}]

SeqsUpTo(S, n) == UNION {[1..k -> S] : k \in 0..n}

\* Values of the threshold field: a number, or None when the field is cleared.
Thresholds == {None, Some(5), Some(10), Some(20)}

\* Failures the external client can raise.
ClientErrors ==
    {[type |-> "PermissionDenied", msg |-> "401 Unauthorized"],
     [type |-> "ConnectionError", msg |-> "Connection refused"]}

\* `int > None` in the breach comparison.
CompareError ==
    [type |-> "TypeError",
     msg  |-> "'>' not supported between instances of 'int' and 'NoneType'"]

\* Classes derived from Exception.
ExceptionClasses == {"PermissionDenied", "ConnectionError", "TypeError"}

\* ------------------------------------------------------------------ state
VARIABLES
    env_url, env_token,      \* os.getenv("url", ""), os.getenv("token", "")
    pc,                      \* position of the handler
    host_url, token,         \* parameters after the fallback of lines 13-14
    threshold_mins,          \* parameter
    calls,                   \* calls made on the external client, in order
    clusters, cluster_info, cluster_states,
    warehouses, warehouse_info, warehouse_states, breach_list,
    cluster_summary, warehouse_summary, result, breach_table,
    ret,                     \* the returned 4-tuple, <<>> before the return
    outcome,                 \* "running", "returned" or "raised"
    raised                   \* the exception raised inside the try block, if any

vars == <<env_url, env_token, pc, host_url, token, threshold_mins, calls,
          clusters, cluster_info, cluster_states,
          warehouses, warehouse_info, warehouse_states, breach_list,
          cluster_summary, warehouse_summary, result, breach_table,
          ret, outcome, raised>>

env == <<env_url, env_token>>
args == <<host_url, token, threshold_mins>>
clusterLocals == <<clusters, cluster_info, cluster_states>>
warehouseLocals == <<warehouses, warehouse_info, warehouse_states, breach_list>>
tableLocals == <<cluster_summary, warehouse_summary, result, breach_table>>

Init ==
    /\ \E e \in {<<"", "">>, <<HostUrl, "">>, <<HostUrl, Token>>} :
          env_url = e[1] /\ env_token = e[2]
    /\ pc = "idle"
    /\ host_url = ""
    /\ token = ""
    /\ threshold_mins = None
    /\ calls = <<>>
    /\ clusters = <<>> /\ cluster_info = <<>> /\ cluster_states = <<>>
    /\ warehouses = <<>> /\ warehouse_info = <<>> /\ warehouse_states = <<>>
    /\ breach_list = <<>>
    /\ cluster_summary = <<>> /\ warehouse_summary = <<>>
    /\ result = <<>> /\ breach_table = <<>>
    /\ ret = <<>>
    /\ outcome = "running"
    /\ raised = None

\* ------------------------------------------------------- outcomes (JSON)
MissingCredentialsTable == << <<"Error", "Please provide both host URL and token">> >>

MissingCredentialsJson ==
    [error |-> "Please provide both host URL and token (via input or .env file)"]

ErrorJson_partial(msg) == [error |-> msg, clusters |-> cluster_info]

\* {"error": str(e)}
ErrorJson(msg) == [error |-> msg]

EmptyTable == << <<"No resources found", "0">> >>

EmptyJson == [message |-> "No compute resources found"]

NoBreachTable == << <<"No resources exceed threshold", "", "", "", "">> >>

\* error = [[str(e), ""]]
ErrorTable(msg) == << <<msg, "">> >>

\* `except Exception as e`
Catches_narrow(exc) == exc.type = "ConnectionError"

Catches(exc) == exc.type \in ExceptionClasses

\* An exception raised inside the try block: the handler of lines 106-108
\* returns the error outcome; an exception it does not catch leaves the call.
Raise(exc) ==
    /\ raised' = Some(exc)
    /\ pc' = "done"
    /\ IF Catches(exc)
       THEN /\ ret' = <<ErrorTable(exc.msg), ErrorTable(exc.msg),
                        ErrorTable(exc.msg), ErrorJson(exc.msg)>>
            /\ outcome' = "returned"
       ELSE /\ ret' = <<>>
            /\ outcome' = "raised"

\* ------------------------------------------------------------ normalising
ClusterRecord(cluster) ==
    [type          |-> "Cluster",
     name          |-> OrDefault(cluster.cluster_name, "N/A"),
     id            |-> OrDefault(cluster.cluster_id, "N/A"),
     state         |-> StateOf(cluster),
     spark_version |-> OrDefault(cluster.spark_version, "N/A")]

WarehouseRecord(warehouse) ==
    [type           |-> "SQL Warehouse",
     name           |-> OrDefault(warehouse.name, "N/A"),
     id             |-> OrDefault(warehouse.id, "N/A"),
     state          |-> StateOf(warehouse),
     cluster_size   |-> OrDefault(warehouse.cluster_size, "N/A"),
     warehouse_type |-> IF warehouse.warehouse_type = None THEN "N/A"
                        ELSE warehouse.warehouse_type[1],
     auto_stop_mins |-> IF warehouse.auto_stop_mins = None THEN "N/A"
                        ELSE warehouse.auto_stop_mins[1]]

\* `auto_stop > threshold_mins` on two numbers.
Exceeds_orequal(auto_stop, threshold) == auto_stop >= threshold

Exceeds(auto_stop, threshold) == auto_stop > threshold

BreachRow(warehouse, threshold) ==
    <<OrDefault(warehouse.name, "N/A"), "SQL Warehouse",
      warehouse.auto_stop_mins[1], threshold,
      warehouse.auto_stop_mins[1] - threshold>>

\* [[label, len(info)]] + [[state, count] for state, count in sorted(states.items())]
SummaryTable(label, info, states) ==
    << <<label, Len(info)>> >> \o
    (IF states # <<>> THEN Sorted(states) ELSE <<>>)

ResultJson(cinfo, winfo, cstates, wstates) ==
    [clusters       |-> cinfo,
     sql_warehouses |-> winfo,
     summary        |-> [total_clusters   |-> Len(cinfo),
                         total_warehouses |-> Len(winfo),
                         cluster_states   |-> cstates,
                         warehouse_states |-> wstates]]

BreachTable_raw(breaches) == breaches

BreachTable(breaches) == IF breaches = <<>> THEN NoBreachTable ELSE breaches

\* `if not host_url or not token`
CredentialsMissing_and(h, t) == h = "" /\ t = ""

CredentialsMissing(h, t) == h = "" \/ t = ""

\* `if not cluster_info and not warehouse_info`
NothingFound_or(cinfo, winfo) == cinfo = <<>> \/ winfo = <<>>

NothingFound(cinfo, winfo) == cinfo = <<>> /\ winfo = <<>>

Called(name, ok) == Append(calls, [call |-> name, ok |-> ok])

\* ---------------------------------------------------------------- actions
\* The button is clicked: the call, and the fallback of lines 13-14.
Invoke(h, t, thr) ==
    /\ pc = "idle"
    /\ pc' = "check"
    /\ host_url' = OrEnv(h, env_url)
    /\ token' = OrEnv(t, env_token)
    /\ threshold_mins' = thr
    /\ UNCHANGED <<env, calls, clusterLocals, warehouseLocals, tableLocals,
                   ret, outcome, raised>>

\* Lines 16-18.
ReturnMissingCredentials ==
    /\ pc = "check"
    /\ CredentialsMissing(host_url, token)
    /\ pc' = "done"
    /\ ret' = <<MissingCredentialsTable, MissingCredentialsTable,
                MissingCredentialsTable, MissingCredentialsJson>>
    /\ outcome' = "returned"
    /\ UNCHANGED <<env, args, calls, clusterLocals, warehouseLocals,
                   tableLocals, raised>>

\* Line 20.
ConstructClient ==
    /\ pc = "check"
    /\ ~CredentialsMissing(host_url, token)
    /\ calls' = Called("WorkspaceClient", TRUE)
    /\ pc' = "list_clusters"
    /\ UNCHANGED <<env, args, clusterLocals, warehouseLocals, tableLocals,
                   ret, outcome, raised>>

ConstructClientRaises(exc) ==
    /\ pc = "check"
    /\ ~CredentialsMissing(host_url, token)
    /\ calls' = Called("WorkspaceClient", FALSE)
    /\ Raise(exc)
    /\ UNCHANGED <<env, args, clusterLocals, warehouseLocals, tableLocals>>

\* Lines 23-25.
ListClusters(fetched) ==
    /\ pc = "list_clusters"
    /\ calls' = Called("clusters.list", TRUE)
    /\ clusters' = fetched
    /\ cluster_info' = <<>>
    /\ cluster_states' = <<>>
    /\ pc' = "cluster_loop"
    /\ UNCHANGED <<env, args, warehouseLocals, tableLocals, ret, outcome, raised>>

ListClustersRaises_swallowed(exc) ==
    /\ pc = "list_clusters"
    /\ calls' = Called("clusters.list", FALSE)
    /\ clusters' = <<>>
    /\ cluster_info' = <<>>
    /\ cluster_states' = <<>>
    /\ pc' = "cluster_loop"
    /\ raised' = Some(exc)
    /\ UNCHANGED <<env, args, warehouseLocals, tableLocals, ret, outcome>>

ListClustersRaises(exc) ==
    /\ pc = "list_clusters"
    /\ calls' = Called("clusters.list", FALSE)
    /\ Raise(exc)
    /\ UNCHANGED <<env, args, clusterLocals, warehouseLocals, tableLocals>>

\* Lines 26-35, one iteration: the next cluster is the one after those
\* already appended to cluster_info.
ClusterLoop ==
    /\ pc = "cluster_loop"
    /\ Len(cluster_info) < Len(clusters)
    /\ LET cluster == clusters[Len(cluster_info) + 1]
       IN /\ cluster_states' = Tally(cluster_states, StateOf(cluster))
          /\ cluster_info' = Append(cluster_info, ClusterRecord(cluster))
    /\ UNCHANGED <<env, args, pc, calls, clusters, warehouseLocals,
                   tableLocals, ret, outcome, raised>>

\* Lines 38-41, once the cluster loop is over.
ListWarehouses(fetched) ==
    /\ pc = "cluster_loop"
    /\ Len(cluster_info) = Len(clusters)
    /\ calls' = Called("warehouses.list", TRUE)
    /\ warehouses' = fetched
    /\ warehouse_info' = <<>>
    /\ warehouse_states' = <<>>
    /\ breach_list' = <<>>
    /\ pc' = "warehouse_loop"
    /\ UNCHANGED <<env, args, clusterLocals, tableLocals, ret, outcome, raised>>

ListWarehousesRaises(exc) ==
    /\ pc = "cluster_loop"
    /\ Len(cluster_info) = Len(clusters)
    /\ calls' = Called("warehouses.list", FALSE)
    /\ Raise(exc)
    /\ UNCHANGED <<env, args, clusterLocals, warehouseLocals, tableLocals>>

\* Lines 43-66, one iteration in which the comparison of line 59 is either
\* skipped (auto_stop is None) or made between two numbers.
WarehouseLoop ==
    /\ pc = "warehouse_loop"
    /\ Len(warehouse_info) < Len(warehouses)
    /\ LET warehouse == warehouses[Len(warehouse_info) + 1]
           auto_stop == warehouse.auto_stop_mins
       IN /\ auto_stop = None \/ threshold_mins # None
          /\ warehouse_states' = Tally(warehouse_states, StateOf(warehouse))
          /\ warehouse_info' = Append(warehouse_info, WarehouseRecord(warehouse))
          /\ breach_list' =
                IF auto_stop # None /\ Exceeds(auto_stop[1], threshold_mins[1])
                THEN Append(breach_list, BreachRow(warehouse, threshold_mins[1]))
                ELSE breach_list
    /\ UNCHANGED <<env, args, pc, calls, clusterLocals, warehouses,
                   tableLocals, ret, outcome, raised>>

\* Lines 43-59, one iteration in which auto_stop is a number and
\* threshold_mins is None: the comparison of line 59 raises TypeError.
WarehouseLoopRaises ==
    /\ pc = "warehouse_loop"
    /\ Len(warehouse_info) < Len(warehouses)
    /\ LET warehouse == warehouses[Len(warehouse_info) + 1]
       IN /\ warehouse.auto_stop_mins # None
          /\ threshold_mins = None
          /\ warehouse_states' = Tally(warehouse_states, StateOf(warehouse))
          /\ warehouse_info' = Append(warehouse_info, WarehouseRecord(warehouse))
    /\ Raise(CompareError)
    /\ UNCHANGED <<env, args, calls, clusterLocals, warehouses, breach_list,
                   tableLocals>>

\* Lines 68-99, once the warehouse loop is over.
BuildTables ==
    /\ pc = "warehouse_loop"
    /\ Len(warehouse_info) = Len(warehouses)
    /\ cluster_summary' = SummaryTable("Total Clusters", cluster_info, cluster_states)
    /\ warehouse_summary' =
          SummaryTable("Total Warehouses", warehouse_info, warehouse_states)
    /\ result' = ResultJson(cluster_info, warehouse_info,
                            cluster_states, warehouse_states)
    /\ breach_table' = BreachTable(breach_list)
    /\ pc' = "return"
    /\ UNCHANGED <<env, args, calls, clusterLocals, warehouseLocals,
                   ret, outcome, raised>>

\* Lines 101-103.
ReturnEmpty ==
    /\ pc = "return"
    /\ NothingFound(cluster_info, warehouse_info)
    /\ ret' = <<EmptyTable, EmptyTable, EmptyTable, EmptyJson>>
    /\ outcome' = "returned"
    /\ pc' = "done"
    /\ UNCHANGED <<env, args, calls, clusterLocals, warehouseLocals,
                   tableLocals, raised>>

\* Line 105.
ReturnResult ==
    /\ pc = "return"
    /\ ~NothingFound(cluster_info, warehouse_info)
    /\ ret' = <<cluster_summary, warehouse_summary, breach_table, result>>
    /\ outcome' = "returned"
    /\ pc' = "done"
    /\ UNCHANGED <<env, args, calls, clusterLocals, warehouseLocals,
                   tableLocals, raised>>

\* The invocation is over: its outputs go to the four components of lines
\* 160-164 and its locals are discarded; the button can be clicked again.
Render ==
    /\ pc = "done"
    /\ pc' = "idle"
    /\ host_url' = "" /\ token' = "" /\ threshold_mins' = None
    /\ calls' = <<>>
    /\ clusters' = <<>> /\ cluster_info' = <<>> /\ cluster_states' = <<>>
    /\ warehouses' = <<>> /\ warehouse_info' = <<>> /\ warehouse_states' = <<>>
    /\ breach_list' = <<>>
    /\ cluster_summary' = <<>> /\ warehouse_summary' = <<>>
    /\ result' = <<>> /\ breach_table' = <<>>
    /\ ret' = <<>>
    /\ outcome' = "running"
    /\ raised' = None
    /\ UNCHANGED env

Next ==
    \/ \E h \in {"", HostUrl}, t \in {"", Token}, thr \in Thresholds :
          Invoke(h, t, thr)
    \/ ReturnMissingCredentials
    \/ ConstructClient
    \/ \E exc \in ClientErrors : ConstructClientRaises(exc)
    \/ \E fetched \in SeqsUpTo(ClusterObjects, MaxClusters) : ListClusters(fetched)
    \/ \E exc \in ClientErrors : ListClustersRaises(exc)
    \/ ClusterLoop
    \/ \E fetched \in SeqsUpTo(WarehouseObjects, MaxWarehouses) :
          ListWarehouses(fetched)
    \/ \E exc \in ClientErrors : ListWarehousesRaises(exc)
    \/ WarehouseLoop
    \/ WarehouseLoopRaises
    \/ BuildTables
    \/ ReturnEmpty
    \/ ReturnResult
    \/ Render

Spec == Init /\ [][Next]_vars

\* ============================================================ properties
Returned == pc = "done" /\ outcome = "returned"

\* Both credentials were there and the client and both lists were obtained.
BothFetched ==
    /\ host_url # "" /\ token # ""
    /\ Len(calls) = 3
    /\ \A k \in 1..3 : calls[k].ok

Populated == Returned /\ DOMAIN ret[4] = {"clusters", "sql_warehouses", "summary"}

ReadOnlyCalls == <<"WorkspaceClient", "clusters.list", "warehouses.list">>

RECURSIVE SumValues(_)
SumValues(d) == IF d = <<>> THEN 0 ELSE d[1][2] + SumValues(Tail(d))

CountState(objects, s) == Cardinality({k \in 1..Len(objects) : StateOf(objects[k]) = s})

StateNames == {"RUNNING", "TERMINATED", "Unknown"}

\* d is the tally of objects: one item per state that occurs, with its count.
IsTallyOf(d, objects) ==
    /\ \A j, k \in 1..Len(d) : d[j][1] = d[k][1] => j = k
    /\ \A k \in 1..Len(d) : d[k][2] > 0
    /\ \A s \in StateNames : DictGet(d, s, 0) = CountState(objects, s)

\* table is the total row followed by the items of d in ascending key order.
IsSummaryOf(table, label, n, d) ==
    /\ Len(table) = Len(d) + 1
    /\ table[1][1] = label /\ table[1][2] = n
    /\ {table[k] : k \in 2..Len(table)} = {d[k] : k \in 1..Len(d)}
    /\ \A k \in 2..(Len(table) - 1) : StrLess(table[k][1], table[k + 1][1])

\* The warehouses of ws, in order, whose auto_stop_mins is a number above thr.
RECURSIVE ExpectedBreaches(_, _)
ExpectedBreaches(ws, thr) ==
    IF ws = <<>> THEN <<>>
    ELSE (IF ws[1].auto_stop_mins # None /\ ws[1].auto_stop_mins[1] > thr
          THEN << <<OrDefault(ws[1].name, "N/A"), "SQL Warehouse",
                    ws[1].auto_stop_mins[1], thr, ws[1].auto_stop_mins[1] - thr>> >>
          ELSE <<>>) \o ExpectedBreaches(Tail(ws), thr)

IsPlaceholder(table) ==
    Len(table) = 1 /\ table[1][1] = "No resources exceed threshold"

IsNoResources(table) ==
    Len(table) = 1 /\ table[1][1] = "No resources found"

\* C1: whenever the endpoint or the credential is still empty after the
\* fallback to the environment, the invocation makes no call on the external
\* client (it is not even constructed) and ends by returning the
\* missing-credentials error object, whose only key is `error`.
C1_MissingCredentials ==
    (pc # "idle" /\ (host_url = "" \/ token = "")) =>
        /\ calls = <<>>
        /\ pc \in {"check", "done"}
        /\ pc = "done" =>
              /\ outcome = "returned"
              /\ DOMAIN ret[4] = {"error"}
              /\ ret[4].error =
                    "Please provide both host URL and token (via input or .env file)"

C1_Witness ==
    /\ Returned
    /\ host_url = HostUrl /\ token = ""
    /\ calls = <<>>
    /\ DOMAIN ret[4] = {"error"}

\* C2: with both credentials present, a failure of the client construction,
\* of either fetch or of a later step never leaves the invocation as an
\* exception: the invocation returns the error object whose `error` value is
\* the message of that failure.
C2_FailuresReturned ==
    /\ outcome # "raised"
    /\ pc = "done" => outcome = "returned"
    /\ (\E k \in 1..Len(calls) : ~calls[k].ok) => (pc = "done" /\ raised # None)
    /\ (pc = "done" /\ raised # None) =>
          /\ host_url # "" /\ token # ""
          /\ DOMAIN ret[4] = {"error"}
          /\ ret[4].error = raised[1].msg

C2_Witness ==
    /\ Returned
    /\ Len(calls) = 1 /\ calls[1].call = "WorkspaceClient" /\ ~calls[1].ok
    /\ raised # None /\ raised[1].msg = "401 Unauthorized"
    /\ ret[4].error = "401 Unauthorized"

\* C3: in every populated result, for clusters and for warehouses, the counts
\* of the state tally add up to the total of the summary, which is the number
\* of records in the result and the number of objects fetched.
C3_TalliesSumToTotals ==
    Populated =>
        LET j == ret[4] IN
        /\ SumValues(j.summary.cluster_states) = j.summary.total_clusters
        /\ j.summary.total_clusters = Len(j.clusters)
        /\ Len(j.clusters) = Len(clusters)
        /\ SumValues(j.summary.warehouse_states) = j.summary.total_warehouses
        /\ j.summary.total_warehouses = Len(j.sql_warehouses)
        /\ Len(j.sql_warehouses) = Len(warehouses)

C3_Witness ==
    /\ Populated
    /\ Len(clusters) = 2 /\ clusters[1].state = None /\ clusters[2].state = None
    /\ ret[4].summary.cluster_states = << <<"Unknown", 2>> >>
    /\ Len(warehouses) = 2 /\ warehouses[1].state # warehouses[2].state

\* A row <<name, kind, auto_stop, threshold, excess>> of the breach list.
IsBreachEntry(e) ==
    /\ threshold_mins # None
    /\ e[4] = threshold_mins[1]
    /\ e[3] > e[4]
    /\ e[5] = e[3] - e[4]
    /\ e[5] > 0

\* C4: every breach entry, while the list is built and in the returned breach
\* table, has auto_stop above the threshold of the invocation, and its excess
\* is auto_stop minus threshold, a positive number.
C4_BreachEntries ==
    /\ \A k \in 1..Len(breach_list) : IsBreachEntry(breach_list[k])
    /\ (Populated /\ ~IsPlaceholder(ret[3])) =>
          \A k \in 1..Len(ret[3]) : IsBreachEntry(ret[3][k])

C4_Witness ==
    /\ Populated
    /\ threshold_mins = Some(5)
    /\ Len(ret[3]) = 1
    /\ ret[3][1] = <<"w1", "SQL Warehouse", 30, 5, 25>>

\* C5: when both fetches succeeded and nothing failed, the invocation returns
\* the object whose only key is `message` exactly when both fetched lists are
\* empty.
C5_EmptyResult ==
    (pc = "done" /\ BothFetched /\ raised = None) =>
        /\ outcome = "returned"
        /\ (clusters = <<>> /\ warehouses = <<>>) <=> (DOMAIN ret[4] = {"message"})

C5_Witness ==
    /\ Returned /\ BothFetched /\ raised = None
    /\ clusters = <<>> /\ warehouses = <<>>
    /\ DOMAIN ret[4] = {"message"}

\* C6: the calls made on the external client are a prefix of construct, list
\* clusters, list warehouses; a call is made only after the one before it
\* succeeded; and once the cluster fetch has failed the invocation is over
\* with the error object, the warehouse fetch never made.
C6_CallSequence ==
    /\ Len(calls) <= 3
    /\ \A k \in 1..Len(calls) : calls[k].call = ReadOnlyCalls[k]
    /\ \A k \in 1..(Len(calls) - 1) : calls[k].ok
    /\ (Len(calls) >= 2 /\ ~calls[2].ok) =>
          /\ Len(calls) = 2
          /\ Returned
          /\ DOMAIN ret[4] = {"error"}

C6_Witness ==
    /\ Returned
    /\ Len(calls) = 2 /\ calls[2].call = "clusters.list" /\ ~calls[2].ok
    /\ DOMAIN ret[4] = {"error"}

\* C7: an invocation without a threshold (threshold_mins is None), with both
\* fetches successful and at least one record fetched, returns the populated
\* result with no breach entry.
C7_OmittedThreshold ==
    (pc = "done" /\ threshold_mins = None /\ BothFetched
        /\ (clusters # <<>> \/ warehouses # <<>>)) =>
        /\ Populated
        /\ breach_list = <<>>
        /\ IsPlaceholder(ret[3])

\* C8: every invocation returns one of three objects: the object with the only
\* key `error` (a message string) when the credentials are missing or
\* something failed; the object with the only key `message` when nothing
\* failed and nothing was fetched; otherwise the object with the keys
\* `clusters`, `sql_warehouses` and `summary`, the summary holding the two
\* totals and the two tallies.
C8_ThreeOutcomes ==
    pc = "done" =>
        /\ outcome = "returned"
        /\ IF host_url = "" \/ token = "" \/ raised # None
           THEN /\ DOMAIN ret[4] = {"error"}
                /\ ret[4].error \in
                     {"Please provide both host URL and token (via input or .env file)",
                      CompareError.msg} \cup {e.msg : e \in ClientErrors}
           ELSE IF cluster_info = <<>> /\ warehouse_info = <<>>
           THEN DOMAIN ret[4] = {"message"}
           ELSE /\ DOMAIN ret[4] = {"clusters", "sql_warehouses", "summary"}
                /\ DOMAIN ret[4].summary =
                     {"total_clusters", "total_warehouses",
                      "cluster_states", "warehouse_states"}
                /\ ret[4].clusters = cluster_info
                /\ ret[4].sql_warehouses = warehouse_info

C8_Witness ==
    /\ Returned
    /\ raised # None
    /\ cluster_info # <<>>
    /\ DOMAIN ret[4] = {"error"}

\* C9 as stated: with a numeric threshold, the breach list is the fetched
\* warehouses above the threshold, in fetch order, and whenever no warehouse
\* breaches the breach table returned is the placeholder row.
C9_Original ==
    (Returned /\ BothFetched /\ raised = None /\ threshold_mins # None) =>
        /\ breach_list = ExpectedBreaches(warehouses, threshold_mins[1])
        /\ breach_list = <<>> => IsPlaceholder(ret[3])

\* C9 as amended: with a numeric threshold, the breach list is the fetched
\* warehouses above the threshold, in fetch order; the breach table returned
\* is that list, or the placeholder row when no warehouse breaches and at
\* least one cluster or warehouse was fetched, or the "No resources found" row
\* when both fetched lists are empty.
C9_Breaches ==
    (Returned /\ BothFetched /\ raised = None /\ threshold_mins # None) =>
        /\ breach_list = ExpectedBreaches(warehouses, threshold_mins[1])
        /\ IF clusters = <<>> /\ warehouses = <<>>
           THEN IsNoResources(ret[3])
           ELSE IF breach_list = <<>>
           THEN IsPlaceholder(ret[3]) /\ ret[3][1] = <<"No resources exceed threshold", "", "", "", "">>
           ELSE ret[3] = breach_list

C9_Witness ==
    /\ Returned /\ BothFetched /\ raised = None
    /\ threshold_mins = Some(10)
    /\ Len(warehouses) = 2
    /\ warehouses[1].auto_stop_mins = Some(10)
    /\ warehouses[2].auto_stop_mins = Some(30)
    /\ ret[3] = << <<"w1", "SQL Warehouse", 30, 10, 20>> >>

====
